---------------------------- MODULE Spec2Model ----------------------------
(***************************************************************************)
(* GoalMine backend, POST /sync-calendar (src/main.py, sync_calendar).     *)
(*                                                                         *)
(* A request carries a plan (a list of strings, one per day) and calendar  *)
(* credentials.  The handler parses every plan entry with three regular    *)
(* expressions, materializes one calendar event per time slot, builds the  *)
(* calendar service and then inserts the events one by one.                *)
(*                                                                         *)
(* Text is modelled as a sequence of lexemes: the words the regular        *)
(* expressions look for ("Day", "Topics", "Time Allotted") and free words  *)
(* ("x", "Algebra", "none") are one lexeme each, every other character     *)
(* (digits, ':', '-', ';', ' ', newline) is a lexeme of its own.           *)
(***************************************************************************)
EXTENDS Integers, Sequences, FiniteSets, TLC

\* ------------------------------------------------------------ bounds

\* longest plan (number of entries) a request carries
MaxPlan == 2

\* ------------------------------------------------------------ characters

NL == "\n"
Digits == {"0", "1", "2", "3", "4", "5", "6", "7", "8", "9"}

IsDigit(c) == c \in Digits

\* str.strip() and the regex class \s
IsSpace(c) == c \in {" ", NL}

\* the regex '.' (no DOTALL flag): anything but a newline
IsDot(c) == c # NL

DigitVal(c) ==
  CASE c = "0" -> 0 [] c = "1" -> 1 [] c = "2" -> 2 [] c = "3" -> 3
    [] c = "4" -> 4 [] c = "5" -> 5 [] c = "6" -> 6 [] c = "7" -> 7
    [] c = "8" -> 8 [] c = "9" -> 9

DigitChar(n) ==
  CASE n = 0 -> "0" [] n = 1 -> "1" [] n = 2 -> "2" [] n = 3 -> "3"
    [] n = 4 -> "4" [] n = 5 -> "5" [] n = 6 -> "6" [] n = 7 -> "7"
    [] n = 8 -> "8" [] n = 9 -> "9"

\* int(day_match.group(1))
RECURSIVE IntOf(_)
IntOf(ds) ==
  IF ds = <<>> THEN 0
  ELSE 10 * IntOf(SubSeq(ds, 1, Len(ds) - 1)) + DigitVal(ds[Len(ds)])

Min(S) == CHOOSE x \in S : \A y \in S : x <= y

\* ------------------------------------------------------------ str methods

\* str.strip(): leading and trailing whitespace removed
RECURSIVE Strip(_)
Strip(s) ==
  IF s = <<>> THEN s
  ELSE IF IsSpace(s[1]) THEN Strip(Tail(s))
  ELSE IF IsSpace(s[Len(s)]) THEN Strip(SubSeq(s, 1, Len(s) - 1))
  ELSE s

\* sep in s
Contains(s, sep) == \E i \in 1..Len(s) : s[i] = sep

\* str.split(sep): the pieces between the separators, empty pieces kept
RECURSIVE Split(_, _)
Split(s, sep) ==
  IF ~Contains(s, sep) THEN <<s>>
  ELSE LET i == Min({k \in 1..Len(s) : s[k] = sep})
       IN <<SubSeq(s, 1, i - 1)>> \o Split(SubSeq(s, i + 1, Len(s)), sep)

\* ------------------------------------------------------------ re.search

NoMatch == [matched |-> FALSE, group |-> <<>>]
Match(g) == [matched |-> TRUE, group |-> g]

\* the last index of the run of c's satisfying \d that starts at i (i-1: none)
RECURSIVE DigitsEnd(_, _)
DigitsEnd(s, i) ==
  IF i <= Len(s) /\ IsDigit(s[i]) THEN DigitsEnd(s, i + 1) ELSE i - 1

\* the last index of the run of '.' characters that starts at i (i-1: none)
RECURSIVE DotEnd(_, _)
DotEnd(s, i) ==
  IF i <= Len(s) /\ IsDot(s[i]) THEN DotEnd(s, i + 1) ELSE i - 1

\* r'Day (\d+): (.+)' matched at position i
DayMatchAt(s, i) ==
  /\ i + 1 <= Len(s)
  /\ s[i] = "Day"
  /\ s[i + 1] = " "
  /\ LET j == DigitsEnd(s, i + 2)
     IN /\ j >= i + 2
        /\ j + 3 <= Len(s)
        /\ s[j + 1] = ":"
        /\ s[j + 2] = " "
        /\ IsDot(s[j + 3])

\* re.search(r'Day (\d+): (.+)', day): the leftmost match, group(1)
DaySearch(s) ==
  LET P == {i \in 1..Len(s) : DayMatchAt(s, i)}
  IN IF P = {} THEN NoMatch
     ELSE LET i == Min(P)
          IN Match(SubSeq(s, i + 2, DigitsEnd(s, i + 2)))

\* the lengths k >= 1 of a (.+?) at i that the lookahead (?=Time Allotted:)
\* accepts
TopicsLens(s, i) ==
  {k \in 1..Len(s) :
     /\ i + 3 + k + 1 <= Len(s)
     /\ \A p \in (i + 3)..(i + 2 + k) : IsDot(s[p])
     /\ s[i + 3 + k] = "Time Allotted"
     /\ s[i + 3 + k + 1] = ":"}

\* r'Topics: (.+?)(?=Time Allotted:)' matched at position i
TopicsMatchAt(s, i) ==
  /\ i + 2 <= Len(s)
  /\ s[i] = "Topics"
  /\ s[i + 1] = ":"
  /\ s[i + 2] = " "
  /\ TopicsLens(s, i) # {}

\* re.search(r'Topics: (.+?)(?=Time Allotted:)', day): leftmost, lazy group(1)
TopicsSearch(s) ==
  LET P == {i \in 1..Len(s) : TopicsMatchAt(s, i)}
  IN IF P = {} THEN NoMatch
     ELSE LET i == Min(P)
              k == Min(TopicsLens(s, i))
          IN Match(SubSeq(s, i + 3, i + 2 + k))

\* r'Time Allotted: (.+)' matched at position i
TimeMatchAt(s, i) ==
  /\ i + 3 <= Len(s)
  /\ s[i] = "Time Allotted"
  /\ s[i + 1] = ":"
  /\ s[i + 2] = " "
  /\ IsDot(s[i + 3])

\* re.search(r'Time Allotted: (.+)', day): leftmost, greedy group(1)
TimeSearch(s) ==
  LET P == {i \in 1..Len(s) : TimeMatchAt(s, i)}
  IN IF P = {} THEN NoMatch
     ELSE LET i == Min(P)
          IN Match(SubSeq(s, i + 3, DotEnd(s, i + 3)))

\* ------------------------------------------------------------ dates

\* date.max.toordinal(): 9999-12-31
MaxOrdinal == 3652059

IsLeap(y) == y % 4 = 0 /\ (y % 100 # 0 \/ y % 400 = 0)

DaysInMonth(y, m) ==
  IF m = 2 THEN (IF IsLeap(y) THEN 29 ELSE 28)
  ELSE IF m \in {4, 6, 9, 11} THEN 30 ELSE 31

DaysBeforeYear(y) ==
  (y - 1) * 365 + ((y - 1) \div 4) - ((y - 1) \div 100) + ((y - 1) \div 400)

RECURSIVE DaysBeforeMonth(_, _)
DaysBeforeMonth(y, m) ==
  IF m = 1 THEN 0 ELSE DaysBeforeMonth(y, m - 1) + DaysInMonth(y, m - 1)

\* date.toordinal(): 0001-01-01 is day 1
Ymd2Ord(y, m, d) == DaysBeforeYear(y) + DaysBeforeMonth(y, m) + d

\* the month and the day of the r-th day (from 0) after the first of month m
RECURSIVE MonthDay(_, _, _)
MonthDay(y, m, r) ==
  IF r < DaysInMonth(y, m) THEN [y |-> y, m |-> m, d |-> r + 1]
  ELSE MonthDay(y, m + 1, r - DaysInMonth(y, m))

\* date.fromordinal(n), for 1 <= n <= MaxOrdinal: the 400-, 100-, 4- and
\* 1-year cycles before day n, then the month and the day within the year
Ord2Ymd(n) ==
  LET r400 == (n - 1) % 146097
      n100 == r400 \div 36524
      r100 == r400 % 36524
      r4   == r100 % 1461
      n1   == r4 \div 365
      year == ((n - 1) \div 146097) * 400 + 1 + n100 * 100
                + (r100 \div 1461) * 4 + n1
  IN IF n1 = 4 \/ n100 = 4 THEN [y |-> year - 1, m |-> 12, d |-> 31]
     ELSE MonthDay(year, 1, r4 % 365)

\* the dates on which a request may arrive
RefDates ==
  {Ymd2Ord(2025, 4, 14), Ymd2Ord(2025, 12, 30), Ymd2Ord(2024, 2, 28)}

\* datetime.now() + timedelta(days=n), then .date(): OverflowError past date.max
AddDays(today, n) ==
  IF today + n < 1 \/ today + n > MaxOrdinal
  THEN [raised |-> TRUE, exc |-> "OverflowError",
        msg |-> "date value out of range", date |-> [y |-> 0, m |-> 0, d |-> 0]]
  ELSE [raised |-> FALSE, exc |-> "", msg |-> "", date |-> Ord2Ymd(today + n)]

\* n written with w digits, zero padded
RECURSIVE Padded(_, _)
Padded(n, w) ==
  IF w = 0 THEN <<>> ELSE Padded(n \div 10, w - 1) \o <<DigitChar(n % 10)>>

\* f"{event_date.date()}": date.isoformat(), YYYY-MM-DD
FormatDate(dt) ==
  Padded(dt.y, 4) \o <<"-">> \o Padded(dt.m, 2) \o <<"-">> \o Padded(dt.d, 2)

\* ------------------------------------------------------------ strptime

BadTime == [ok |-> FALSE, y |-> 0, m |-> 0, d |-> 0, H |-> 0, M |-> 0]

\* the directive %M, regex [0-5]\d|\d, at position p: the length it takes
MinuteLen(t, p) ==
  IF p + 1 <= Len(t) /\ t[p] \in {"0", "1", "2", "3", "4", "5"} /\ IsDigit(t[p + 1])
  THEN 2
  ELSE IF p <= Len(t) /\ IsDigit(t[p]) THEN 1 ELSE 0

\* the directive %H, regex 2[0-3]|[0-1]\d|\d, at position p: the lengths of its
\* alternatives that match there, in the order the regex tries them
HourLens(t, p) ==
  (IF p + 1 <= Len(t) /\ t[p] = "2" /\ t[p + 1] \in {"0", "1", "2", "3"}
   THEN <<2>> ELSE <<>>)
  \o (IF p + 1 <= Len(t) /\ t[p] \in {"0", "1"} /\ IsDigit(t[p + 1])
      THEN <<2>> ELSE <<>>)
  \o (IF p <= Len(t) /\ IsDigit(t[p]) THEN <<1>> ELSE <<>>)

\* whether "%H:%M" matches at p with the hour taking h characters
HourFits(t, p, h) ==
  /\ p + h <= Len(t)
  /\ t[p + h] = ":"
  /\ MinuteLen(t, p + h + 1) > 0

\* the first index at or after p that is not whitespace (the format's ' ' is \s+)
RECURSIVE SkipSpace(_, _)
SkipSpace(t, p) ==
  IF p <= Len(t) /\ IsSpace(t[p]) THEN SkipSpace(t, p + 1) ELSE p

\* datetime.strptime(t, "%Y-%m-%d %H:%M") for t = <isoformat date> <time text>:
\* ok = FALSE is the ValueError (no match, or unconverted data remains)
Strptime(t) ==
  IF ~(/\ Len(t) >= 11
       /\ \A i \in {1, 2, 3, 4, 6, 7, 9, 10} : IsDigit(t[i])
       /\ t[5] = "-" /\ t[8] = "-"
       /\ IsSpace(t[11]))
  THEN BadTime
  ELSE LET p    == SkipSpace(t, 11)
           fits == SelectSeq(HourLens(t, p), LAMBDA h : HourFits(t, p, h))
       IN IF fits = <<>> THEN BadTime
          ELSE LET h    == fits[1]
                   mlen == MinuteLen(t, p + h + 1)
               IN IF p + h + mlen # Len(t) THEN BadTime
                  ELSE [ok |-> TRUE,
                        y  |-> IntOf(SubSeq(t, 1, 4)),
                        m  |-> IntOf(SubSeq(t, 6, 7)),
                        d  |-> IntOf(SubSeq(t, 9, 10)),
                        H  |-> IntOf(SubSeq(t, p, p + h - 1)),
                        M  |-> IntOf(SubSeq(t, p + h + 1, p + h + mlen))]

\* ------------------------------------------------------------ events

\* the datetime object strptime returns
DateTime(t) == [y |-> t.y, m |-> t.m, d |-> t.d, H |-> t.H, M |-> t.M]

\* the fixed reminder policy of every event
Reminders ==
  [useDefault |-> FALSE,
   overrides  |-> <<[method |-> "email", minutes |-> 24 * 60],
                    [method |-> "popup", minutes |-> 30]>>]

\* the event body built for one time slot
Event(day_num, topics, start_dt, end_dt) ==
  [summary     |-> <<"Study Session: ">> \o topics,
   description |-> [day |-> day_num, topics |-> topics],
   start       |-> [dateTime |-> start_dt, timeZone |-> "UTC"],
   end         |-> [dateTime |-> end_dt, timeZone |-> "UTC"],
   reminders   |-> Reminders]

\* one time slot of the loop over time_slots.split(';'): skipped without '-',
\* ValueError when it does not unpack into two parts or a part does not parse
\* (strptime's two messages, no match and unconverted data, are one here)
SlotOutcome(time_slot, date, day_num, topics) ==
  IF ~Contains(time_slot, "-")
  THEN [kind |-> "skip", exc |-> "", msg |-> "", events |-> <<>>]
  ELSE LET parts == Split(time_slot, "-")
       IN IF Len(parts) # 2
          THEN [kind |-> "raise", exc |-> "ValueError",
                msg |-> "too many values to unpack (expected 2)", events |-> <<>>]
          ELSE LET start_dt == Strptime(FormatDate(date) \o <<" ">> \o Strip(parts[1]))
                   end_dt   == Strptime(FormatDate(date) \o <<" ">> \o Strip(parts[2]))
               IN IF ~start_dt.ok \/ ~end_dt.ok
                  THEN [kind |-> "raise", exc |-> "ValueError",
                        msg |-> "time data does not match format", events |-> <<>>]
                  ELSE [kind   |-> "event", exc |-> "", msg |-> "",
                        events |-> <<Event(day_num, topics, DateTime(start_dt),
                                           DateTime(end_dt))>>]

\* the loop over the time slots: the events appended until the end or the raise
RECURSIVE SlotLoop(_, _, _, _)
SlotLoop(slots, date, day_num, topics) ==
  IF slots = <<>> THEN [raised |-> FALSE, exc |-> "", msg |-> "", events |-> <<>>]
  ELSE LET o == SlotOutcome(slots[1], date, day_num, topics)
       IN IF o.kind = "raise"
          THEN [raised |-> TRUE, exc |-> o.exc, msg |-> o.msg, events |-> <<>>]
          ELSE LET rest == SlotLoop(Tail(slots), date, day_num, topics)
               IN [raised |-> rest.raised, exc |-> rest.exc, msg |-> rest.msg,
                   events |-> o.events \o rest.events]

\* the condition of line 248: all three searches match
AllMatch(day) ==
  DaySearch(day).matched /\ TopicsSearch(day).matched /\ TimeSearch(day).matched

\* a timedelta that forgets that Day 1 is the reference date itself
OffsetFromZero(day_num) == day_num

\* line 254, timedelta(days=day_num-1): the days added to the reference date
DayOffset(day_num) == day_num - 1

\* one iteration of "for day in plan": what it appends to events, or raises
ParseDay(day, today) ==
  IF ~AllMatch(day)
  THEN [matched |-> FALSE, raised |-> FALSE, exc |-> "", msg |-> "",
        events |-> <<>>]
  ELSE LET day_num    == IntOf(DaySearch(day).group)
           topics     == Strip(TopicsSearch(day).group)
           time_slots == Strip(TimeSearch(day).group)
           event_date == AddDays(today, DayOffset(day_num))
       IN IF event_date.raised
          THEN [matched |-> TRUE, raised |-> TRUE, exc |-> event_date.exc,
                msg |-> event_date.msg, events |-> <<>>]
          ELSE LET r == SlotLoop(Split(time_slots, ";"), event_date.date,
                                 day_num, topics)
               IN [matched |-> TRUE, raised |-> r.raised, exc |-> r.exc,
                   msg |-> r.msg, events |-> r.events]

\* ------------------------------------------------------------ plan entries

T0900 == <<"0", "9", ":", "0", "0">>
T1000 == <<"1", "0", ":", "0", "0">>
T1100 == <<"1", "1", ":", "0", "0">>
T1400 == <<"1", "4", ":", "0", "0">>
T1500 == <<"1", "5", ":", "0", "0">>
T2359 == <<"2", "3", ":", "5", "9">>

Slot(a, b) == a \o <<"-">> \o b

Hdr(ds) == <<"Day", " ">> \o ds \o <<":", " ", "x">>
Topics == <<"Topics", ":", " ", "Algebra">>
TimeAllotted(slots) == <<"Time Allotted", ":", " ">> \o slots

\* the three markers on one line
OneLine(ds, slots) ==
  Hdr(ds) \o <<" ">> \o Topics \o <<" ">> \o TimeAllotted(slots)

\* the three markers on a line each, the format the generate-plan prompt asks for
Block(ds, slots) ==
  Hdr(ds) \o <<NL>> \o Topics \o <<NL>> \o TimeAllotted(slots) \o <<NL>>

TwoSlots == Slot(T0900, T1000) \o <<";">> \o Slot(T1400, T1500)

\* "Day 1: x\nTopics: Algebra\nTime Allotted: 09:00-10:00;14:00-15:00\n"
ExampleBlock == Block(<<"1">>, TwoSlots)
\* "Day 1: x Topics: Algebra Time Allotted: 09:00-10:00;14:00-15:00"
ExampleLine == OneLine(<<"1">>, TwoSlots)
\* "Day 3: x Topics: Algebra Time Allotted: 09:00-10:00"
Day3Line == OneLine(<<"3">>, Slot(T0900, T1000))
\* "Day 0: x Topics: Algebra Time Allotted: 09:00-10:00"
Day0Line == OneLine(<<"0">>, Slot(T0900, T1000))
\* "Day 2: x Topics: Algebra Time Allotted: 10:00-09:00"
ReversedLine == OneLine(<<"2">>, Slot(T1000, T0900))
\* "Day 2: x Topics: Algebra Time Allotted: garbage;10:00-11:00"
GarbageLine == OneLine(<<"2">>, <<"garbage", ";">> \o Slot(T1000, T1100))
\* "Day 2: x Topics: Algebra Time Allotted: 09:00-;10:00-11:00"
OpenEndLine == OneLine(<<"2">>, T0900 \o <<"-", ";">> \o Slot(T1000, T1100))
\* "Day 2: x Topics: Algebra Time Allotted: none"
NoSlotLine == OneLine(<<"2">>, <<"none">>)
\* "Day 12: x Topics: Algebra  Time Allotted:  9:00 - 23:59 "
SpacedLine ==
  Hdr(<<"1", "2">>) \o <<" ">> \o Topics \o <<" ", " ">>
    \o TimeAllotted(<<" ", "9", ":", "0", "0", " ", "-", " ">> \o T2359 \o <<" ">>)
\* "Day 9999999: x Topics: Algebra Time Allotted: 09:00-10:00"
HugeDayLine ==
  OneLine(<<"9", "9", "9", "9", "9", "9", "9">>, Slot(T0900, T1000))
\* "Day 2: x Time Allotted: 09:00-10:00"
NoTopicsLine == Hdr(<<"2">>) \o <<" ">> \o TimeAllotted(Slot(T0900, T1000))
\* "Day 2: x Topics: Algebra"
NoTimeLine == Hdr(<<"2">>) \o <<" ">> \o Topics
\* "Topics: Algebra Time Allotted: 09:00-10:00"
NoDayLine == Topics \o <<" ">> \o TimeAllotted(Slot(T0900, T1000))

\* the strings a plan is made of
PlanEntries ==
  {ExampleBlock, ExampleLine, Day3Line, Day0Line, ReversedLine, GarbageLine,
   OpenEndLine, NoSlotLine, SpacedLine, HugeDayLine, NoTopicsLine, NoTimeLine,
   NoDayLine}

\* data.get('plan', []): lists of at most MaxPlan entries, the empty list too
Plans == UNION {[1..n -> PlanEntries] : n \in 0..MaxPlan}

\* data.get('calendar_credentials'): absent, lacking a key, or complete
CredentialKinds == {"missing", "partial", "full"}

\* ------------------------------------------------------------ the request

VARIABLES
  pc,              \* where the request is: verify, validate, credentials,
                   \* materialize, insert, done
  plan,            \* data.get('plan', [])
  creds,           \* data.get('calendar_credentials')
  today,           \* the ordinal of the date datetime.now() returns
  rolled,          \* whether midnight has passed since the request arrived
  idx,             \* the next entry of "for day in plan"
  events,          \* the list events
  origin,          \* per event: the plan entry it came from, the date now() gave
  records,         \* the plan entries that passed the test of line 248
  next_event,      \* the next event of "for event in events"
  attempts,        \* the events an insert was issued for, in the order issued
  failed,          \* the events whose insert raised
  created_events,  \* the list created_events
  response         \* the HTTP response, once the request is done

vars ==
  <<pc, plan, creds, today, rolled, idx, events, origin, records, next_event,
    attempts, failed, created_events, response>>

NoResponse ==
  [code |-> 0, status |-> "", detail |-> <<>>, exc |-> "", count |-> 0]

\* raise HTTPException(status_code=code, detail=detail), reaching the client
HttpError(code, detail, exc) ==
  [code |-> code, status |-> "error", detail |-> detail, exc |-> exc, count |-> 0]

\* the handler's "except Exception as e" (lines 323-328): whatever was raised
\* inside the try block, an HTTPException included, becomes a 500
Caught(exc, text) ==
  HttpError(500, <<"Failed to sync calendar: ">> \o text, exc)

\* the return statement of lines 317-321
Success(created) ==
  [code |-> 200, status |-> "success", detail |-> <<>>, exc |-> "",
   count |-> Len(created)]

Init ==
  /\ pc = "verify"
  /\ plan \in Plans
  /\ creds \in CredentialKinds
  /\ today \in RefDates
  /\ rolled = FALSE
  /\ idx = 1
  /\ events = <<>>
  /\ origin = <<>>
  /\ records = {}
  /\ next_event = 1
  /\ attempts = <<>>
  /\ failed = {}
  /\ created_events = <<>>
  /\ response = NoResponse

\* verify_firebase_token, the dependency that runs before the handler
VerifyToken ==
  /\ pc = "verify"
  /\ \E ok \in BOOLEAN :
       IF ok
       THEN pc' = "validate" /\ response' = response
       ELSE /\ pc' = "done"
            /\ response' = HttpError(401, <<"Invalid token">>, "HTTPException")
  /\ UNCHANGED <<plan, creds, today, rolled, idx, events, origin, records,
                 next_event, attempts, failed, created_events>>

\* lines 209-214: the body is read and validated; the HTTPException(400) is
\* raised inside the try block
Validate ==
  /\ pc = "validate"
  /\ IF plan = <<>> \/ creds = "missing"
     THEN /\ pc' = "done"
          /\ response' = Caught("HTTPException", <<"400: ", "Missing required data">>)
     ELSE pc' = "credentials" /\ response' = response
  /\ UNCHANGED <<plan, creds, today, rolled, idx, events, origin, records,
                 next_event, attempts, failed, created_events>>

\* lines 217-238: the Credentials object is built from the six keys
MakeCredentials ==
  /\ pc = "credentials"
  /\ IF creds = "partial"
     THEN pc' = "done" /\ response' = Caught("KeyError", <<"'token'">>)
     ELSE pc' = "materialize" /\ response' = response
  /\ UNCHANGED <<plan, creds, today, rolled, idx, events, origin, records,
                 next_event, attempts, failed, created_events>>

\* midnight passes between two calls of datetime.now() (line 254); a request
\* is served within a day, so it passes at most once
Tick ==
  /\ pc = "materialize"
  /\ ~rolled
  /\ today' = today + 1
  /\ rolled' = TRUE
  /\ UNCHANGED <<pc, plan, creds, idx, events, origin, records, next_event,
                 attempts, failed, created_events, response>>

\* lines 242-290: one iteration of "for day in plan"
Materialize ==
  /\ pc = "materialize"
  /\ idx <= Len(plan)
  /\ \E r \in {ParseDay(plan[idx], today)} :
        /\ events' = events \o r.events
        /\ origin' = origin \o [k \in 1..Len(r.events) |->
                                  [entry |-> idx, ref |-> today]]
        /\ records' = IF r.matched THEN records \cup {idx} ELSE records
        /\ IF r.raised
           THEN /\ pc' = "done"
                /\ response' = Caught(r.exc, <<r.msg>>)
                /\ idx' = idx
           ELSE /\ pc' = pc
                /\ response' = response
                /\ idx' = idx + 1
  /\ UNCHANGED <<plan, creds, today, rolled, next_event, attempts, failed,
                 created_events>>

\* lines 292-302: after the loop the calendar service is built, which may raise
BuildService ==
  /\ pc = "materialize"
  /\ idx > Len(plan)
  /\ \E ok \in BOOLEAN :
       IF ok
       THEN pc' = "insert" /\ response' = response
       ELSE pc' = "done" /\ response' = Caught("Exception", <<"build">>)
  /\ UNCHANGED <<plan, creds, today, rolled, idx, events, origin, records,
                 next_event, attempts, failed, created_events>>

\* inserts issued as soon as an event is materialized
InsertWhileParsing(at) == at \in {"materialize", "insert"}

\* where inserts are issued: in the loop of lines 306-315, after the service
\* is built
InsertEnabled(at) == at = "insert"

\* a "break" in place of "continue": the loop ends at the first failure
BreakAfterFailure(k, n) == n + 1

\* line 315, "continue": the event the loop takes after one whose insert raised
AfterFailure(k, n) == k + 1

\* lines 306-315: one iteration of "for event in events"; the insert may raise,
\* which is printed and the loop goes on
Insert ==
  /\ InsertEnabled(pc)
  /\ next_event <= Len(events)
  /\ attempts' = Append(attempts, next_event)
  /\ \E ok \in BOOLEAN :
       IF ok
       THEN /\ created_events' = Append(created_events, events[next_event])
            /\ failed' = failed
            /\ next_event' = next_event + 1
       ELSE /\ created_events' = created_events
            /\ failed' = failed \cup {next_event}
            /\ next_event' = AfterFailure(next_event, Len(events))
  /\ UNCHANGED <<pc, plan, creds, today, rolled, idx, events, origin, records,
                 response>>

\* lines 317-321: the loop is over and the count is reported
Return ==
  /\ pc = "insert"
  /\ next_event > Len(events)
  /\ pc' = "done"
  /\ response' = Success(created_events)
  /\ UNCHANGED <<plan, creds, today, rolled, idx, events, origin, records,
                 next_event, attempts, failed, created_events>>

Next ==
  \/ VerifyToken
  \/ Validate
  \/ MakeCredentials
  \/ Tick
  \/ Materialize
  \/ BuildService
  \/ Insert
  \/ Return

Spec == Init /\ [][Next]_vars

\* ------------------------------------------------------------ properties

Done == pc = "done"
Succeeded == Done /\ response.code = 200

\* the events materialized from plan entry i, in the order appended
EventsOf(i) == {k \in 1..Len(events) : origin[k].entry = i}

DateOf(t) == [y |-> t.y, m |-> t.m, d |-> t.d]
StartOf(k) == events[k].start.dateTime
EndOf(k) == events[k].end.dateTime

\* the day after dt, by the calendar
NextDay(dt) ==
  IF dt.d < DaysInMonth(dt.y, dt.m) THEN [dt EXCEPT !.d = @ + 1]
  ELSE IF dt.m < 12 THEN [y |-> dt.y, m |-> dt.m + 1, d |-> 1]
  ELSE [y |-> dt.y + 1, m |-> 1, d |-> 1]

RECURSIVE DaysLater(_, _)
DaysLater(dt, n) == IF n = 0 THEN dt ELSE DaysLater(NextDay(dt), n - 1)

\* minutes since 0001-01-01 00:00 of a datetime
Instant(t) == (Ymd2Ord(t.y, t.m, t.d) * 24 + t.H) * 60 + t.M

\* the sequence 1, 2, ..., n
UpTo(n) == [k \in 1..n |-> k]

\* the literal markers, wherever they stand in the entry
HasDayMarker(day) ==
  \E i \in 1..Len(day) :
    /\ day[i] = "Day"
    /\ i + 3 <= Len(day)
    /\ day[i + 1] = " "
    /\ IsDigit(day[i + 2])
    /\ day[DigitsEnd(day, i + 2) + 1] = ":"
HasTopicsMarker(day) ==
  \E i \in 1..(Len(day) - 1) : day[i] = "Topics" /\ day[i + 1] = ":"
HasTimeMarker(day) ==
  \E i \in 1..(Len(day) - 1) : day[i] = "Time Allotted" /\ day[i + 1] = ":"
CarriesAllMarkers(day) ==
  HasDayMarker(day) /\ HasTopicsMarker(day) /\ HasTimeMarker(day)

\* C1: in the insertion step every materialized event is attempted exactly
\* once and in order, a failed insert never prevents the attempts for the later
\* events, and the request ends with status "success" reporting n - f, the
\* number of events inserted (n events, f failed inserts).
C1_InsertsIndependent ==
  /\ pc = "insert" =>
       /\ attempts = UpTo(next_event - 1)
       /\ Len(created_events) = (next_event - 1) - Cardinality(failed)
  /\ (Done /\ attempts # <<>>) => Succeeded
  /\ Succeeded =>
       /\ attempts = UpTo(Len(events))
       /\ failed \subseteq 1..Len(events)
       /\ response.status = "success"
       /\ response.count = Len(events) - Cardinality(failed)
       /\ response.count = Len(created_events)

\* C1 witness: the first insert failed, the second was still attempted and
\* succeeded, and the request ended in success with n - 1 events
C1_Witness ==
  /\ Succeeded
  /\ Len(events) >= 2
  /\ failed = {1}
  /\ attempts = UpTo(Len(events))
  /\ response.count = Len(events) - 1

\* C2: the materializer produces exactly one event per (day, interval) pair:
\* the day "Day 1: x\nTopics: Algebra\nTime Allotted: 09:00-10:00;14:00-15:00\n"
\* yields exactly two events sharing the same date, and a day with no interval
\* yields none, without an error.
C2_OnePerInterval ==
  Succeeded =>
    \A i \in 1..Len(plan) :
      /\ plan[i] = ExampleBlock =>
           /\ Cardinality(EventsOf(i)) = 2
           /\ \A j, k \in EventsOf(i) : DateOf(StartOf(j)) = DateOf(StartOf(k))
      /\ plan[i] = NoSlotLine => EventsOf(i) = {}

\* C3: for every day with day_number >= 1, the date of each of its events is
\* the reference date plus day_number - 1 days, and the start and the end both
\* lie on that date (2025-04-14 and day 3 give 2025-04-16).
C3_EventDate ==
  \A k \in 1..Len(events) :
    LET n == events[k].description.day
    IN n >= 1 =>
         \A ref \in {Ord2Ymd(origin[k].ref)} :
           \A date \in {DaysLater(ref, n - 1)} :
             /\ DateOf(StartOf(k)) = date
             /\ DateOf(EndOf(k)) = date
             /\ StartOf(k).H \in 0..23 /\ StartOf(k).M \in 0..59
             /\ EndOf(k).H \in 0..23 /\ EndOf(k).M \in 0..59
             /\ (ref = [y |-> 2025, m |-> 4, d |-> 14] /\ n = 3) =>
                  date = [y |-> 2025, m |-> 4, d |-> 16]

\* C3 witness: an event of day 3 materialized on 2025-04-14 and dated
\* 2025-04-16
C3_Witness ==
  \E k \in 1..Len(events) :
    /\ events[k].description.day = 3
    /\ Ord2Ymd(origin[k].ref) = [y |-> 2025, m |-> 4, d |-> 14]
    /\ DateOf(StartOf(k)) = [y |-> 2025, m |-> 4, d |-> 16]
    /\ DateOf(EndOf(k)) = [y |-> 2025, m |-> 4, d |-> 16]

\* C4: a malformed interval candidate (no '-', an empty or unparsable time) is
\* skipped and never fatal: the request does not fail because of it, and the
\* entries after it are still parsed.
C4_MalformedSkipped ==
  /\ ~(Done /\ response.exc = "ValueError")
  /\ \A i \in 1..Len(plan) :
       (plan[i] \in {GarbageLine, OpenEndLine} /\ i < idx) => EventsOf(i) # {}

\* C5: a day whose day_number is below 1 is rejected and never yields an event
\* dated before the reference date.
C5_NoPastDate ==
  \A k \in 1..Len(events) :
    /\ events[k].description.day >= 1
    /\ Ymd2Ord(StartOf(k).y, StartOf(k).m, StartOf(k).d) >= origin[k].ref

\* C6: a plan that is empty or holds no valid day block is reported as a
\* failure: the request never ends in success with no record.
C6_EmptyPlanFails == Succeeded => records # {}

\* C7: exactly the entries that carry all three markers (Day N:, Topics:,
\* Time Allotted:) produce a record, and an entry missing one is left out
\* without raising.
C7_MarkedBlocksKept ==
  \A i \in 1..Len(plan) :
    i < idx => (i \in records <=> CarriesAllMarkers(plan[i]))

\* C8: every materialized event starts before it ends.
C8_StartBeforeEnd ==
  \A k \in 1..Len(events) : Instant(StartOf(k)) < Instant(EndOf(k))

\* C9: a request with an empty or missing plan, or without
\* calendar_credentials, is answered 400 "Missing required data", and no
\* insert is attempted for it.
C9_MissingDataIs400 ==
  (Done /\ response.code # 401 /\ (plan = <<>> \/ creds = "missing")) =>
    /\ response.code = 400
    /\ response.detail = <<"Missing required data">>
    /\ attempts = <<>>

\* C10: materialization strictly precedes insertion: no insert is issued
\* before every plan entry is parsed and the service is built, so a request in
\* which parsing an entry raises, or the service cannot be built, fails with
\* zero events inserted, whatever had been materialized before.
C10_ParseBeforeInsert ==
  /\ attempts # <<>> => (idx > Len(plan) /\ pc \in {"insert", "done"})
  /\ pc \in {"verify", "validate", "credentials", "materialize"} =>
       (attempts = <<>> /\ created_events = <<>>)
  /\ (Done /\ response.code = 500) =>
       (attempts = <<>> /\ created_events = <<>>)

\* C10 witness: the first entry was materialized, the second raised, and the
\* request failed without an insert
C10_Witness ==
  /\ Done
  /\ response.code = 500
  /\ response.exc \in {"ValueError", "OverflowError"}
  /\ idx = 2
  /\ events # <<>>
  /\ attempts = <<>>

=============================================================================
